---- MODULE Spec2Model ----
(***************************************************************************)
(* Model of package binaryex (src/binaryex.go, the reflect-based version   *)
(* that starts at line 519): Write/WriteReflect and Read/ReadReflect with  *)
(* the per-kind codecs, over a bytes.Buffer used as writer and reader.     *)
(*                                                                         *)
(* A Go type is a descriptor record, a Go value a record of one shape for  *)
(* every kind:                                                             *)
(*   n   the number of a bool (0/1) or of an integer kind                  *)
(*   nil TRUE for a nil pointer, nil slice or nil map                      *)
(*   raw the bytes of a string; the IEEE-754 bit pattern of a float64,     *)
(*       most significant byte first                                       *)
(*   sub the elements of an array or slice, the fields of a struct, the    *)
(*       pointee of a non-nil pointer, the entries <<key, value>> of a map *)
(*       (kept sorted by key, so record equality is reflect.DeepEqual)     *)
(* Integers of the model stay far below 2^31, so the 64-bit arithmetic of  *)
(* encoding/binary never wraps on them.                                    *)
(***************************************************************************)
EXTENDS Integers, Sequences, FiniteSets, TLC

\* longest string and longest slice among the enumerated values
MaxLen == 2
\* most writes outstanding on one stream
MaxOps == 3
\* longest stream that is put into the buffer byte by byte
MaxFeed == 3
\* binary.MaxVarintLen64
MaxVarintLen64 == 10

----------------------------------------------------------------------------
(* Types (reflect.Type)                                                    *)

Type(kind, name, w, sub, names, marsh, unmarsh) ==
    [kind |-> kind, name |-> name, w |-> w, sub |-> sub, names |-> names,
     marsh |-> marsh, unmarsh |-> unmarsh]

Basic(kind, name, w) == Type(kind, name, w, <<>>, <<>>, "none", "none")

TBool    == Basic("bool", "bool", 0)
TInt     == Basic("int", "int", 64)
TInt8    == Basic("int", "int8", 8)
TInt16   == Basic("int", "int16", 16)
TInt32   == Basic("int", "int32", 32)
TUint8   == Basic("uint", "uint8", 8)
TUint16  == Basic("uint", "uint16", 16)
TFloat64 == Basic("float", "float64", 64)
TString  == Basic("string", "string", 0)
TFunc    == Basic("func", "func()", 0)
TChan    == Basic("chan", "chan bool", 0)
TUnsafePointer == Basic("unsafeptr", "unsafe.Pointer", 0)

ArrayOf(n, et) == Type("array", "array", n, <<et>>, <<>>, "none", "none")
SliceOf(et)    == Type("slice", "slice", 0, <<et>>, <<>>, "none", "none")
MapOf(kt, vt)  == Type("map", "map", 0, <<kt, vt>>, <<>>, "none", "none")
PtrTo(et)      == Type("ptr", "ptr", 0, <<et>>, <<>>, "none", "none")
StructOf(name, names, fts) == Type("struct", name, 0, fts, names, "none", "none")

\* Field names as UTF-8 bytes.
NameA     == <<65>>
Nameb     == <<98>>
NameBlank == <<95>>
NameN     == <<78>>
NameIn    == <<73, 110>>
NameB     == <<66>>
NameEa    == <<195, 137, 97>>
NameX     == <<88>>
Namewall  == <<119, 97, 108, 108>>
Namefrac  == <<102, 114, 97, 99>>
NameP     == <<80>>
NameS     == <<83>>
NameF     == <<70>>
NamePPointerField == <<80, 80, 111, 105, 110, 116, 101, 114, 70, 105, 101, 108, 100>>
NameTimeField == <<84, 105, 109, 101, 70, 105, 101, 108, 100>>

TBytes    == SliceOf(TUint8)
TArr2Bool == ArrayOf(2, TBool)
TMapU8Bool == MapOf(TUint8, TBool)
\* struct { b bool; A bool }
TInner == StructOf("Inner", <<Nameb, NameA>>, <<TBool, TBool>>)
\* struct { N uint8; _ bool; In Inner }
TOuter == StructOf("Outer", <<NameN, NameBlank, NameIn>>, <<TUint8, TBool, TInner>>)
\* struct { Éa bool; B bool }
TAccent == StructOf("Accent", <<NameEa, NameB>>, <<TBool, TBool>>)
\* struct { P *bool; S *string }
TNilTypes == StructOf("NilTypes", <<NameP, NameS>>, <<PtrTo(TBool), PtrTo(TString)>>)
\* struct { PPointerField ***bool }
TDeepPointerTypes == StructOf("DeepPointerTypes", <<NamePPointerField>>,
                              <<PtrTo(PtrTo(PtrTo(TBool)))>>)
\* [1]func()
TArr1Func == ArrayOf(1, TFunc)
\* struct { A bool; F func() }
TCallback == StructOf("Callback", <<NameA, NameF>>, <<TBool, TFunc>>)
\* A type in the manner of time.Time: only unexported fields, MarshalBinary
\* on the value receiver (it can fail), UnmarshalBinary on the pointer
\* receiver.
TStamp == Type("struct", "Stamp", 0, <<TUint8, TBool>>, <<Namewall, Namefrac>>,
               "value", "ptr")
\* struct { X uint8 } with both methods on the value receiver.
TTag == Type("struct", "Tag", 0, <<TUint8>>, <<NameX>>, "value", "value")
\* struct { TimeField Stamp }
TMarshalableTypes == StructOf("MarshalableTypes", <<NameTimeField>>, <<TStamp>>)
\* struct { TimeField Stamp; B bool }: a capable field with a field after it
TLogged == StructOf("Logged", <<NameTimeField, NameB>>, <<TStamp, TBool>>)

----------------------------------------------------------------------------
(* Values (reflect.Value)                                                  *)

V0 == [n |-> 0, nil |-> FALSE, raw |-> <<>>, sub |-> <<>>]
Num(n)   == [V0 EXCEPT !.n = n]
Raw(bs)  == [V0 EXCEPT !.raw = bs]
Agg(vs)  == [V0 EXCEPT !.sub = vs]
NilV     == [V0 EXCEPT !.nil = TRUE]
Ptr(x)   == Agg(<<x>>)
Entry(k, v) == Agg(<<k, v>>)

RECURSIVE Repeat(_, _)
Repeat(x, n) == IF n = 0 THEN <<>> ELSE <<x>> \o Repeat(x, n - 1)

RECURSIVE Zero(_)
RECURSIVE ZeroAll(_)
ZeroAll(ts) == IF ts = <<>> THEN <<>> ELSE <<Zero(Head(ts))>> \o ZeroAll(Tail(ts))
Zero(t) ==
    CASE t.kind = "float"  -> Raw(Repeat(0, 8))
      [] t.kind = "array"  -> Agg(Repeat(Zero(t.sub[1]), t.w))
      [] t.kind = "struct" -> Agg(ZeroAll(t.sub))
      [] t.kind \in {"slice", "map", "ptr", "func", "chan", "unsafeptr"} -> NilV
      [] OTHER -> V0

----------------------------------------------------------------------------
(* The values the operations are tried on                                  *)

BoolVals   == {Num(0), Num(1)}
IntVals    == {Num(-1), Num(0), Num(42)}
Int8Vals   == {Num(-1), Num(0), Num(64)}
Int16Vals  == {Num(-1), Num(0), Num(300)}
Uint8Vals  == {Num(0), Num(1), Num(200)}
Uint16Vals == {Num(0), Num(300)}
\* 0.0 and 1.0
FloatVals  == {Raw(Repeat(0, 8)), Raw(<<63, 240>> \o Repeat(0, 6))}
\* "a", "b"
StrBytes   == {97, 98}
\* the keys of the enumerated maps
KeyNs      == {1, 200}

RECURSIVE SeqsOfLen(_, _)
SeqsOfLen(S, n) ==
    IF n = 0 THEN {<<>>}
    ELSE {<<x>> \o s : x \in S, s \in SeqsOfLen(S, n - 1)}

SeqsUpTo(S, n) == UNION {SeqsOfLen(S, k) : k \in 0..n}

RECURSIVE SortedSeq(_)
SortedSeq(S) ==
    IF S = {} THEN <<>>
    ELSE LET m == CHOOSE x \in S : \A y \in S : x <= y
         IN <<m>> \o SortedSeq(S \ {m})

RECURSIVE EntriesOf(_, _)
EntriesOf(ks, f) ==
    IF ks = <<>> THEN <<>>
    ELSE <<Entry(Num(Head(ks)), f[Head(ks)])>> \o EntriesOf(Tail(ks), f)

RECURSIVE Values(_)
RECURSIVE Products(_)
Products(ts) ==
    IF ts = <<>> THEN {<<>>}
    ELSE {<<x>> \o s : x \in Values(Head(ts)), s \in Products(Tail(ts))}
Values(t) ==
    CASE t.kind = "bool"   -> BoolVals
      [] t.kind = "int"    -> (CASE t.w = 8 -> Int8Vals [] t.w = 16 -> Int16Vals
                                 [] OTHER -> IntVals)
      [] t.kind = "uint"   -> (CASE t.w = 8 -> Uint8Vals [] OTHER -> Uint16Vals)
      [] t.kind = "float"  -> FloatVals
      [] t.kind = "string" -> {Raw(s) : s \in SeqsUpTo(StrBytes, MaxLen)}
      [] t.kind = "array"  -> {Agg(s) : s \in SeqsOfLen(Values(t.sub[1]), t.w)}
      [] t.kind = "slice"  -> {NilV} \cup
                              {Agg(s) : s \in SeqsUpTo(Values(t.sub[1]), MaxLen)}
      [] t.kind = "map"    -> {NilV} \cup
                              UNION {{Agg(EntriesOf(SortedSeq(K), f)) :
                                        f \in [K -> Values(t.sub[2])]} :
                                     K \in SUBSET KeyNs}
      [] t.kind = "struct" -> {Agg(s) : s \in Products(t.sub)}
      [] t.kind = "ptr"    -> {NilV} \cup {Ptr(x) : x \in Values(t.sub[1])}
      [] OTHER             -> {NilV, V0}

\* A value of type t that differs from Zero(t) wherever it can: what a
\* destination holds before a Read overwrites it.
RECURSIVE Dirty(_)
RECURSIVE DirtyAll(_)
DirtyAll(ts) == IF ts = <<>> THEN <<>> ELSE <<Dirty(Head(ts))>> \o DirtyAll(Tail(ts))
Dirty(t) ==
    CASE t.kind \in {"bool", "int", "uint"} -> Num(1)
      [] t.kind = "float"  -> Raw(<<63, 240>> \o Repeat(0, 6))
      [] t.kind = "string" -> Raw(<<98>>)
      [] t.kind = "array"  -> Agg(Repeat(Dirty(t.sub[1]), t.w))
      [] t.kind = "slice"  -> Agg(<<Dirty(t.sub[1])>>)
      [] t.kind = "map"    -> Agg(<<Entry(Num(1), Dirty(t.sub[2]))>>)
      [] t.kind = "struct" -> Agg(DirtyAll(t.sub))
      [] t.kind = "ptr"    -> Ptr(Dirty(t.sub[1]))
      [] OTHER             -> NilV

\* The types a single Write/Read is tried on.
Universe ==
    {TBool, TInt, TInt8, TInt16, TUint8, TUint16, TFloat64, TString,
     TArr2Bool, TBytes, TMapU8Bool, TInner, TOuter, TAccent, TNilTypes,
     TStamp, TTag, TMarshalableTypes,
     PtrTo(TBool), PtrTo(PtrTo(PtrTo(TBool))), PtrTo(TUint8), PtrTo(TFloat64),
     PtrTo(TString), PtrTo(TArr2Bool), PtrTo(TBytes), PtrTo(TMapU8Bool),
     PtrTo(TInner), PtrTo(TStamp), PtrTo(TTag), PtrTo(PtrTo(TTag)),
     TInt32, TDeepPointerTypes,
     TFunc, TChan, TUnsafePointer, PtrTo(TFunc), TArr1Func, TCallback,
     TLogged}

\* The types sequences of several writes are drawn from.
SeqTypes == {TBool, TUint8, PtrTo(TBool), TTag}

\* The bytes of the streams that no Write of the package produced: every
\* count that reads as positive from them is below 128.
FeedBytes == {0, 1, 2, 4, 97, 129}
Feeds == SeqsUpTo(FeedBytes, MaxFeed)

\* The types of the values handed to a Read function in place of a pointer:
\* one for each of the functions.
ValTypes == {TBool, TUint8, TString, TArr2Bool, TBytes, TMapU8Bool, TInner}

\* The orders in which a map may hand out its keys.
KeyOrders == {o \in SeqsOfLen(KeyNs, Cardinality(KeyNs)) :
                 \A i, j \in 1..Len(o) : i # j => o[i] # o[j]}

----------------------------------------------------------------------------
(* Field names: strings.ToLower and the visibility rule of the language    *)

IsAsciiUpper(b)  == b >= 65 /\ b <= 90
\* second byte of U+00C0..U+00DE (the capital letters of Latin-1) after the
\* lead byte 0xC3; U+00D7, the multiplication sign, is not a letter
IsLatin1Upper(b) == b >= 128 /\ b <= 158 /\ b # 151

\* strings.ToLower on the UTF-8 bytes of a name (ASCII and Latin-1 letters).
RECURSIVE ToLower(_)
ToLower(s) ==
    IF s = <<>> THEN <<>>
    ELSE IF IsAsciiUpper(s[1]) THEN <<s[1] + 32>> \o ToLower(Tail(s))
    ELSE IF s[1] = 195 /\ Len(s) >= 2 /\ IsLatin1Upper(s[2])
         THEN <<195, s[2] + 32>> \o ToLower(Tail(Tail(s)))
    ELSE <<s[1]>> \o ToLower(Tail(s))

\* The language's rule: a field is exported when its name starts with an
\* upper-case letter (unicode.IsUpper of the first rune).
GoExported(fname) ==
    \/ IsAsciiUpper(fname[1])
    \/ fname[1] = 195 /\ Len(fname) >= 2 /\ IsLatin1Upper(fname[2])

\* v.Field(i).CanSet() of an addressable struct: the field is exported.
CanSet(fname) == GoExported(fname)

\* The fields WriteStructReflect passes over.
WriteSkips(fname) == fname = NameBlank \/ fname[1] = ToLower(fname)[1]

\* The fields ReadStructReflect passes over.
ReadSkipsBlankOnly(fname) == fname = NameBlank
ReadSkips(fname) ==
    \/ fname = NameBlank
    \/ fname[1] = ToLower(fname)[1]
    \/ ~CanSet(fname)

----------------------------------------------------------------------------
(* Capabilities (encoding.BinaryMarshaler, encoding.BinaryUnmarshaler)     *)

\* v.Interface().(encoding.BinaryMarshaler) of a non-pointer value: true
\* when MarshalBinary is in the method set of the value type.
NeverMarshaler(t) == FALSE
ImplementsMarshaler(t) == t.marsh = "value"

\* nv.Interface().(encoding.BinaryUnmarshaler) of a non-pointer value.
ImplementsUnmarshaler(t) == t.unmarsh = "value"

\* bm.MarshalBinary() of the two capable types.
MarshalBinary(t, v) ==
    CASE t.name = "Stamp" ->
           IF v.sub[2].n = 1
           THEN [blob |-> <<>>, err |-> "MarshalBinary: fractional"]
           ELSE [blob |-> <<1, v.sub[1].n>>, err |-> "nil"]
      [] OTHER -> [blob |-> <<7, v.sub[1].n>>, err |-> "nil"]

\* bu.UnmarshalBinary(b): the value it builds and its error.
UnmarshalBinary(t, b) ==
    CASE t.name = "Stamp" ->
           IF Len(b) = 2 /\ b[1] = 1
           THEN [v |-> Agg(<<Num(b[2]), Num(0)>>), err |-> "nil"]
           ELSE [v |-> Zero(t), err |-> "UnmarshalBinary: invalid"]
      [] OTHER ->
           IF Len(b) = 2 /\ b[1] = 7
           THEN [v |-> Agg(<<Num(b[2])>>), err |-> "nil"]
           ELSE [v |-> Zero(t), err |-> "UnmarshalBinary: invalid"]

\* The []byte value holding the bytes bs.
RECURSIVE NumsOf(_)
NumsOf(bs) == IF bs = <<>> THEN <<>> ELSE <<Num(Head(bs))>> \o NumsOf(Tail(bs))
BytesValue(bs) == Agg(NumsOf(bs))
RECURSIVE BytesOf(_)
BytesOf(vs) == IF vs = <<>> THEN <<>> ELSE <<Head(vs).n>> \o BytesOf(Tail(vs))

----------------------------------------------------------------------------
(* Writing.  Every operation yields [out, err]: the bytes it appended to   *)
(* the writer and the error it returned.  A bytes.Buffer never fails.      *)

Wrote(bs)    == [out |-> bs, err |-> "nil"]
WFail(bs, e) == [out |-> bs, err |-> e]
\* a, and b after it unless a failed
Then(a, b)   == IF a.err # "nil" THEN a ELSE [out |-> a.out \o b.out, err |-> b.err]

\* binary.PutUvarint
RECURSIVE PutUvarint(_)
PutUvarint(x) ==
    IF x < 128 THEN <<x>> ELSE <<(x % 128) + 128>> \o PutUvarint(x \div 128)

\* binary.PutVarint: ux := uint64(x) << 1; if x < 0 { ux = ^ux }
PutVarint(x) == PutUvarint(IF x < 0 THEN (-2 * x) - 1 ELSE 2 * x)

RECURSIVE Reverse(_)
Reverse(s) == IF s = <<>> THEN <<>> ELSE Reverse(Tail(s)) \o <<Head(s)>>
\* binary.Write(w, binary.LittleEndian, float64)
LittleEndian(bits) == Reverse(bits)

WriteBoolReflect(v) == IF v.n = 1 THEN Wrote(<<1>>) ELSE Wrote(<<0>>)

WriteNumberReflectSigned(t, v) ==
    CASE t.kind \in {"int", "uint"} -> Wrote(PutVarint(v.n))
      [] t.kind = "float" -> Wrote(LittleEndian(v.raw))
      [] OTHER            -> WFail(<<>>, "ErrUnsupportedValue")
WriteNumberReflectSilent(t, v) ==
    CASE t.kind = "int"   -> Wrote(PutVarint(v.n))
      [] t.kind = "uint"  -> Wrote(PutUvarint(v.n))
      [] t.kind = "float" -> Wrote(LittleEndian(v.raw))
      [] OTHER            -> Wrote(<<>>)
WriteNumberReflect(t, v) ==
    CASE t.kind = "int"   -> Wrote(PutVarint(v.n))
      [] t.kind = "uint"  -> Wrote(PutUvarint(v.n))
      [] t.kind = "float" -> Wrote(LittleEndian(v.raw))
      [] OTHER            -> WFail(<<>>, "ErrUnsupportedValue")

\* WriteNumber(w, n) of a Go int
WriteNumber(n) == WriteNumberReflect(TInt, Num(n))

WriteStringReflectUnsigned(v) == Then(Wrote(PutUvarint(Len(v.raw))), Wrote(v.raw))
WriteStringReflect(v) == Then(WriteNumber(Len(v.raw)), Wrote(v.raw))

\* WriteReflect on a nil pointer: "Write 0 for nil values".
WriteNilNothing == Wrote(<<>>)
WriteNil == WriteNumber(0)

\* WriteReflect when MarshalBinary failed with e: "return err", and err is
\* the named result, still nil there.
MarshalFailed(e) == Wrote(<<>>)

\* v.MapKeys(): the entries in the order `ord` puts their keys.
RECURSIVE MapKeys(_, _)
MapKeys(es, ord) ==
    IF ord = <<>> THEN <<>>
    ELSE SelectSeq(es, LAMBDA e : e.sub[1].n = Head(ord)) \o MapKeys(es, Tail(ord))

RECURSIVE WriteReflect(_, _, _)
RECURSIVE WriteElems(_, _, _, _)
RECURSIVE WritePairs(_, _, _, _)
RECURSIVE WriteFields(_, _, _, _)

\* the element loop of WriteArrayReflect and WriteSliceReflect, from i on
WriteElems(et, vs, i, ord) ==
    IF i > Len(vs) THEN Wrote(<<>>)
    ELSE Then(WriteReflect(et, vs[i], ord), WriteElems(et, vs, i + 1, ord))

WriteArrayReflect(t, v, ord) == WriteElems(t.sub[1], v.sub, 1, ord)

WriteSliceReflect(t, v, ord) ==
    Then(WriteNumber(Len(v.sub)), WriteElems(t.sub[1], v.sub, 1, ord))

\* the pair loop of WriteMapReflect, from i on
WritePairs(t, es, i, ord) ==
    IF i > Len(es) THEN Wrote(<<>>)
    ELSE Then(Then(WriteReflect(t.sub[1], es[i].sub[1], ord),
                   WriteReflect(t.sub[2], es[i].sub[2], ord)),
              WritePairs(t, es, i + 1, ord))

WriteMapReflectNilSkipped(t, v, ord) ==
    IF v.nil THEN Wrote(<<>>)
    ELSE Then(WriteNumber(Len(v.sub)), WritePairs(t, MapKeys(v.sub, ord), 1, ord))
WriteMapReflect(t, v, ord) ==
    Then(WriteNumber(Len(v.sub)), WritePairs(t, MapKeys(v.sub, ord), 1, ord))

\* the field loop of WriteStructReflect, from i on
WriteFields(t, v, i, ord) ==
    IF i > Len(t.sub) THEN Wrote(<<>>)
    ELSE IF WriteSkips(t.names[i]) THEN WriteFields(t, v, i + 1, ord)
    ELSE Then(WriteReflect(t.sub[i], v.sub[i], ord), WriteFields(t, v, i + 1, ord))

WriteStructReflect(t, v, ord) == WriteFields(t, v, 1, ord)

\* the kind switch of WriteReflect
WriteKind(t, v, ord) ==
    CASE t.kind = "bool"   -> WriteBoolReflect(v)
      [] t.kind = "string" -> WriteStringReflect(v)
      [] t.kind = "array"  -> WriteArrayReflect(t, v, ord)
      [] t.kind = "slice"  -> WriteSliceReflect(t, v, ord)
      [] t.kind = "map"    -> WriteMapReflect(t, v, ord)
      [] t.kind = "struct" -> WriteStructReflect(t, v, ord)
      [] OTHER             -> WriteNumberReflect(t, v)

\* WriteReflect once MarshalBinary has returned m
WriteMarshaledRaw(m, ord) ==
    IF m.err # "nil" THEN MarshalFailed(m.err)
    ELSE Wrote(PutVarint(Len(m.blob)) \o m.blob)
WriteMarshaled(m, ord) ==
    IF m.err # "nil" THEN MarshalFailed(m.err)
    ELSE WriteReflect(TBytes, BytesValue(m.blob), ord)

WriteReflect(t, v, ord) ==
    IF t.kind = "ptr"
    THEN IF v.nil THEN WriteNil ELSE WriteReflect(t.sub[1], v.sub[1], ord)
    ELSE IF ImplementsMarshaler(t) THEN WriteMarshaled(MarshalBinary(t, v), ord)
    ELSE WriteKind(t, v, ord)

\* Write(w, val): reflect.Indirect, then WriteReflect, which goes on
\* dereferencing; a nil val is the invalid Value and writes 0 too.
Write(t, v, ord) == WriteReflect(t, v, ord)

----------------------------------------------------------------------------
(* Reading.  The reader is the unread part s of a bytes.Buffer.  Every     *)
(* operation yields [v, s, err]: what the destination holds afterwards,    *)
(* the unread part afterwards, and the error returned.                     *)

Got(v, s)      == [v |-> v, s |-> s, err |-> "nil"]
RFail(v, s, e) == [v |-> v, s |-> s, err |-> e]
Min(a, b)      == IF a < b THEN a ELSE b

RECURSIVE Pow2(_)
Pow2(k) == IF k = 0 THEN 1 ELSE 2 * Pow2(k - 1)

\* binary.ReadUvarint over readByteWrapper.ReadByte, which hands on the
\* io.EOF of an empty buffer; i bytes are read so far, x is their value and
\* m = 2^(7i).
RECURSIVE ReadUvarintFrom(_, _, _, _)
ReadUvarintFromTruncating(s, x, m, i) ==
    IF i = MaxVarintLen64 THEN RFail(x, s, "overflow")
    ELSE IF s = <<>> THEN Got(x, s)
    ELSE IF s[1] < 128 THEN Got(x + s[1] * m, Tail(s))
    ELSE ReadUvarintFrom(Tail(s), x + (s[1] - 128) * m, m * 128, i + 1)
ReadUvarintFrom(s, x, m, i) ==
    IF i = MaxVarintLen64 THEN RFail(x, s, "overflow")
    ELSE IF s = <<>>
         THEN RFail(x, s, IF i > 0 THEN "ErrUnexpectedEOF" ELSE "EOF")
    ELSE IF s[1] < 128
         THEN IF i = MaxVarintLen64 - 1 /\ s[1] > 1
              THEN RFail(x, Tail(s), "overflow")
              ELSE Got(x + s[1] * m, Tail(s))
    ELSE ReadUvarintFrom(Tail(s), x + (s[1] - 128) * m, m * 128, i + 1)

ReadUvarint(s) == ReadUvarintFrom(s, 0, 1, 0)

\* binary.ReadVarint on the result u of ReadUvarint:
\* x := int64(ux >> 1); if ux&1 != 0 { x = ^x }
UnZigZag(u) ==
    [u EXCEPT !.v = IF u.v % 2 = 1 THEN (-(u.v \div 2)) - 1 ELSE u.v \div 2]
ReadVarint(s) == UnZigZag(ReadUvarint(s))

\* v.SetInt(n) and v.SetUint(n) on a kind of w bits keep the low w bits.
SetUintWide(w, n) == n
SetUint(w, n) == IF w > 16 THEN n ELSE n % Pow2(w)
SetInt(w, n) ==
    IF w > 16 THEN n
    ELSE IF SetUint(w, n) >= Pow2(w - 1) THEN SetUint(w, n) - Pow2(w)
    ELSE SetUint(w, n)

\* io.ReadFull(r, buf) with len(buf) = k
ReadFull(s, k) ==
    IF Len(s) >= k THEN Got(SubSeq(s, 1, k), SubSeq(s, k + 1, Len(s)))
    ELSE RFail(s, <<>>, IF s = <<>> THEN "EOF" ELSE "ErrUnexpectedEOF")

\* ReadNumberReflect once the number r is read: the error, or the Set
StoreNumber(t, r, old) ==
    IF r.err # "nil" THEN RFail(old, r.s, r.err)
    ELSE CASE t.kind = "int"  -> Got(Num(SetInt(t.w, r.v)), r.s)
           [] t.kind = "uint" -> Got(Num(SetUint(t.w, r.v)), r.s)
           [] OTHER           -> Got(Raw(Reverse(r.v)), r.s)

ReadNumberReflect(t, s, old) ==
    CASE t.kind = "int"   -> StoreNumber(t, ReadVarint(s), old)
      [] t.kind = "uint"  -> StoreNumber(t, ReadUvarint(s), old)
      [] t.kind = "float" -> StoreNumber(t, ReadFull(s, 8), old)
      [] OTHER            -> RFail(old, s, "ErrUnsupportedValue")

\* ReadNumber(r, &l) with l := 0 of type int
ReadNumber(s) == ReadNumberReflect(TInt, s, Num(0))

ReadBoolReflectLenient(s, old) ==
    IF s = <<>> THEN RFail(old, s, "EOF")
    ELSE IF s[1] = 0 THEN Got(Num(0), Tail(s))
    ELSE Got(Num(1), Tail(s))
ReadBoolReflect(s, old) ==
    IF s = <<>> THEN RFail(old, s, "EOF")
    ELSE IF s[1] = 0 THEN Got(Num(0), Tail(s))
    ELSE IF s[1] = 1 THEN Got(Num(1), Tail(s))
    ELSE RFail(old, Tail(s), "ErrUnexpected")

\* ReadStringReflect once the length l is read.  One r.Read(buf) of a
\* bytes.Buffer fills what it has and reports no error unless it has nothing;
\* the rest of buf stays zero.
ReadStringBytesLenient(l, old) ==
    IF l.err # "nil" THEN RFail(old, l.s, l.err)
    ELSE IF l.v.n <= 0 THEN Got(Raw(<<>>), l.s)
    ELSE IF l.s = <<>> THEN RFail(old, l.s, "EOF")
    ELSE Got(Raw(SubSeq(l.s, 1, Min(Len(l.s), l.v.n))
                 \o Repeat(0, l.v.n - Min(Len(l.s), l.v.n))),
             SubSeq(l.s, Min(Len(l.s), l.v.n) + 1, Len(l.s)))
ReadStringBytes(l, old) ==
    IF l.err # "nil" THEN RFail(old, l.s, l.err)
    ELSE IF l.v.n < 0 THEN RFail(old, l.s, "ErrUnexpected")
    ELSE IF l.v.n = 0 THEN Got(Raw(<<>>), l.s)
    ELSE IF l.s = <<>> THEN RFail(old, l.s, "EOF")
    ELSE Got(Raw(SubSeq(l.s, 1, Min(Len(l.s), l.v.n))
                 \o Repeat(0, l.v.n - Min(Len(l.s), l.v.n))),
             SubSeq(l.s, Min(Len(l.s), l.v.n) + 1, Len(l.s)))

ReadStringReflect(s, old) == ReadStringBytes(ReadNumber(s), old)

\* reflect.Value.SetMapIndex on the sorted entries
RECURSIVE SetMapIndex(_, _)
SetMapIndex(es, e) ==
    IF es = <<>> THEN <<e>>
    ELSE IF e.sub[1].n < es[1].sub[1].n THEN <<e>> \o es
    ELSE IF e.sub[1].n = es[1].sub[1].n THEN <<e>> \o Tail(es)
    ELSE <<es[1]>> \o SetMapIndex(Tail(es), e)

\* the result r of a loop over elements, as the result for the container
AsAgg(r) == [r EXCEPT !.v = Agg(r.v)]

RECURSIVE ReadReflect(_, _, _)
RECURSIVE ReadElems(_, _, _, _)
RECURSIVE ReadElemsNext(_, _, _, _)
RECURSIVE ReadPairs(_, _, _, _, _)
RECURSIVE ReadPairsValue(_, _, _, _, _)
RECURSIVE ReadPairsNext(_, _, _, _, _, _)
RECURSIVE ReadFields(_, _, _, _)
RECURSIVE ReadFieldsNext(_, _, _, _)

\* the element loop of ReadArrayReflect and ReadSliceReflect, from i on
ReadElems(et, s, vs, i) ==
    IF i > Len(vs) THEN Got(vs, s)
    ELSE ReadElemsNext(et, ReadReflect(et, s, vs[i]), vs, i)
\* ... after ReadReflect(r, v.Index(i)) gave r
ReadElemsNext(et, r, vs, i) ==
    IF r.err # "nil" THEN RFail(vs, r.s, r.err)
    ELSE ReadElems(et, r.s, [vs EXCEPT ![i] = r.v], i + 1)

ReadArrayReflect(t, s, old) == AsAgg(ReadElems(t.sub[1], s, old.sub, 1))

\* ReadSliceReflect once the length l is read
ReadSliceElemsNilOnEmpty(t, l, old) ==
    IF l.err # "nil" THEN RFail(old, l.s, l.err)
    ELSE IF l.v.n < 0 THEN RFail(old, l.s, "ErrUnexpected")
    ELSE IF l.v.n = 0 THEN Got(old, l.s)
    ELSE AsAgg(ReadElems(t.sub[1], l.s, Repeat(Zero(t.sub[1]), l.v.n), 1))
ReadSliceElems(t, l, old) ==
    IF l.err # "nil" THEN RFail(old, l.s, l.err)
    ELSE IF l.v.n < 0 THEN RFail(old, l.s, "ErrUnexpected")
    ELSE AsAgg(ReadElems(t.sub[1], l.s, Repeat(Zero(t.sub[1]), l.v.n), 1))

ReadSliceReflect(t, s, old) == ReadSliceElems(t, ReadNumber(s), old)

\* the pair loop of ReadMapReflect, from i on, of l pairs
ReadPairs(t, s, es, i, l) ==
    IF i > l THEN Got(es, s)
    ELSE ReadPairsValue(t, ReadReflect(t.sub[1], s, Zero(t.sub[1])), es, i, l)
\* ... after the key k is read
ReadPairsValue(t, k, es, i, l) ==
    IF k.err # "nil" THEN RFail(es, k.s, k.err)
    ELSE ReadPairsNext(t, k, ReadReflect(t.sub[2], k.s, Zero(t.sub[2])), es, i, l)
\* ... after the value v is read
ReadPairsNext(t, k, v, es, i, l) ==
    IF v.err # "nil" THEN RFail(es, v.s, v.err)
    ELSE ReadPairs(t, v.s, SetMapIndex(es, Entry(k.v, v.v)), i + 1, l)

\* ReadMapReflect once the length l is read
ReadMapPairsKeeping(t, l, old) ==
    IF l.err # "nil" THEN RFail(old, l.s, l.err)
    ELSE IF l.v.n < 0 THEN RFail(old, l.s, "ErrUnexpected")
    ELSE AsAgg(ReadPairs(t, l.s, old.sub, 1, l.v.n))
ReadMapPairs(t, l, old) ==
    IF l.err # "nil" THEN RFail(old, l.s, l.err)
    ELSE IF l.v.n < 0 THEN RFail(old, l.s, "ErrUnexpected")
    ELSE AsAgg(ReadPairs(t, l.s, <<>>, 1, l.v.n))

ReadMapReflect(t, s, old) == ReadMapPairs(t, ReadNumber(s), old)

\* the field loop of ReadStructReflect, from i on
ReadFields(t, s, vs, i) ==
    IF i > Len(t.sub) THEN Got(vs, s)
    ELSE IF ReadSkips(t.names[i]) THEN ReadFields(t, s, vs, i + 1)
    ELSE ReadFieldsNext(t, ReadReflect(t.sub[i], s, vs[i]), vs, i)
\* ... after ReadReflect(r, v.Field(i)) gave r
ReadFieldsNext(t, r, vs, i) ==
    IF r.err # "nil" THEN RFail(vs, r.s, r.err)
    ELSE ReadFields(t, r.s, [vs EXCEPT ![i] = r.v], i + 1)

ReadStructReflect(t, s, old) == AsAgg(ReadFields(t, s, old.sub, 1))

\* the kind switch of ReadReflect, on the new value nv
ReadKind(t, s, nv) ==
    CASE t.kind = "bool"   -> ReadBoolReflect(s, nv)
      [] t.kind = "string" -> ReadStringReflect(s, nv)
      [] t.kind = "array"  -> ReadArrayReflect(t, s, nv)
      [] t.kind = "slice"  -> ReadSliceReflect(t, s, nv)
      [] t.kind = "map"    -> ReadMapReflect(t, s, nv)
      [] t.kind = "struct" -> ReadStructReflect(t, s, nv)
      [] OTHER             -> ReadNumberReflect(t, s, nv)

\* ReadReflect when the new value is a BinaryUnmarshaler and the blob b is
\* read: b goes to UnmarshalBinary of the copy that nv.Interface() made,
\* and the function returns without v.Set.
Unmarshal(t, b, old) ==
    IF b.err # "nil" THEN RFail(old, b.s, b.err)
    ELSE RFail(old, b.s, UnmarshalBinary(t, BytesOf(b.v.sub)).err)

\* b := []byte{}; ReadSlice(r, &b); bu.UnmarshalBinary(b)
ReadUnmarshaler(t, s, old) ==
    Unmarshal(t, ReadSliceReflect(TBytes, s, Agg(<<>>)), old)

\* the end of ReadReflect: the error, or v.Set(pv) / v.Set(nv)
SetValueAlways(r, old, ptr) ==
    [v |-> IF ptr THEN Ptr(r.v) ELSE r.v, s |-> r.s, err |-> r.err]
SetValue(r, old, ptr) ==
    IF r.err # "nil" THEN RFail(old, r.s, r.err)
    ELSE Got(IF ptr THEN Ptr(r.v) ELSE r.v, r.s)

\* ReadReflect with the new value of type nt allocated; ptr says v is a
\* pointer to it
ReadNew(nt, s, old, ptr) ==
    IF nt.kind = "ptr" THEN SetValue(ReadReflect(nt, s, Zero(nt)), old, ptr)
    ELSE IF ImplementsUnmarshaler(nt) THEN ReadUnmarshaler(nt, s, old)
    ELSE SetValue(ReadKind(nt, s, Zero(nt)), old, ptr)

\* ReadReflect of an addressable v holding old
ReadReflect(t, s, old) ==
    IF t.kind = "ptr" THEN ReadNew(t.sub[1], s, old, TRUE)
    ELSE ReadNew(t, s, old, FALSE)

\* Read(r, &d)
Read(t, s, d) == ReadReflect(t, s, d)

\* ReadStruct(r, &d)
ReadStruct(t, s, d) == ReadStructReflect(t, s, d)

\* What val holds in a call Read*(r, val): a non-nil pointer, a value that is
\* no pointer, the untyped nil, or a nil pointer.
Dsts == {"pointer", "value", "nil", "nilptr"}

\* v.CanAddr() of v := reflect.Indirect(reflect.ValueOf(val)): the pointee of
\* a non-nil pointer is addressable; a copied value is not, and the invalid
\* Value that nil and a nil pointer lead to is not.
CanAddrAlways(dst) == TRUE
CanAddr(dst) == dst = "pointer"

\* The exported Read functions and the kinds each is written for.
Entries == {"Read", "ReadBool", "ReadNumber", "ReadString", "ReadArray",
            "ReadSlice", "ReadMap", "ReadStruct"}
EntryFits(entry, t) ==
    CASE entry = "Read"       -> TRUE
      [] entry = "ReadBool"   -> t.kind = "bool"
      [] entry = "ReadNumber" -> t.kind \in {"int", "uint", "float"}
      [] entry = "ReadString" -> t.kind = "string"
      [] entry = "ReadArray"  -> t.kind = "array"
      [] entry = "ReadSlice"  -> t.kind = "slice"
      [] entry = "ReadMap"    -> t.kind = "map"
      [] OTHER                -> t.kind = "struct"

\* entry(r, val): every one of the functions tests v.CanAddr() first.
ReadEntry(entry, t, s, d, dst) ==
    IF ~CanAddr(dst) THEN RFail(d, s, "ErrUnadressableValue")
    ELSE CASE entry = "Read"       -> Read(t, s, d)
           [] entry = "ReadBool"   -> ReadBoolReflect(s, d)
           [] entry = "ReadNumber" -> ReadNumberReflect(t, s, d)
           [] entry = "ReadString" -> ReadStringReflect(s, d)
           [] entry = "ReadArray"  -> ReadArrayReflect(t, s, d)
           [] entry = "ReadSlice"  -> ReadSliceReflect(t, s, d)
           [] entry = "ReadMap"    -> ReadMapReflect(t, s, d)
           [] OTHER                -> ReadStruct(t, s, d)

----------------------------------------------------------------------------
(* The machine: one bytes.Buffer, written to and read from as the tests    *)
(* and benchmarks of the package do.                                       *)

VARIABLES
    stream,     \* the unread bytes of the buffer
    pending,    \* the writes not yet read back: [t, v, out], oldest first
    last        \* the operation just done and what it returned

vars == <<stream, pending, last>>

NoOp == [op |-> "none", t |-> TBool, src |-> V0, out |-> <<>>, err |-> "nil",
         d0 |-> V0, d |-> V0, used |-> 0, sync |-> TRUE,
         in |-> <<>>, dst |-> "pointer"]

RECURSIVE OutLen(_)
OutLen(ps) == IF ps = <<>> THEN 0 ELSE Len(Head(ps).out) + OutLen(Tail(ps))

\* The buffer holds the bytes of the pending writes and nothing else.
InSync == Len(stream) = OutLen(pending)

Init ==
    /\ stream = <<>>
    /\ pending = <<>>
    /\ last = NoOp

\* what a Write of v that returned r leaves behind
AfterWrite(t, v, r) ==
    /\ stream' = stream \o r.out
    /\ pending' = IF r.err = "nil"
                  THEN Append(pending, [t |-> t, v |-> v, out |-> r.out])
                  ELSE pending
    /\ last' = [NoOp EXCEPT !.op = "Write", !.t = t, !.src = v, !.out = r.out,
                            !.err = r.err, !.sync = InSync]

\* err := Write(buf, v) with v of type t, on a buffer that was not fed and
\* holds the unread writes and nothing else
DoWrite(t, v, ord) ==
    /\ Len(pending) < MaxOps
    /\ InSync
    /\ last.sync
    /\ pending # <<>> => t \in SeqTypes /\ pending[1].t \in SeqTypes
    /\ AfterWrite(t, v, Write(t, v, ord))

\* what a read of the oldest pending write into d0, that returned r, leaves
\* behind
AfterRead(op, r, d0) ==
    /\ stream' = r.s
    /\ pending' = Tail(pending)
    /\ last' = [op |-> op, t |-> pending[1].t, src |-> pending[1].v,
                out |-> pending[1].out, err |-> r.err, d0 |-> d0, d |-> r.v,
                used |-> Len(stream) - Len(r.s), sync |-> InSync,
                in |-> stream, dst |-> "pointer"]

\* the destination before the read: the zero value or something else
Dest(t, dirty) == IF dirty THEN Dirty(t) ELSE Zero(t)

\* err := Read(buf, &d) with d of the type of the oldest pending write
DoRead(dirty) ==
    /\ pending # <<>>
    /\ AfterRead("Read", Read(pending[1].t, stream, Dest(pending[1].t, dirty)),
                 Dest(pending[1].t, dirty))

\* err := ReadStruct(buf, &d)
DoReadStruct(dirty) ==
    /\ pending # <<>>
    /\ pending[1].t.kind = "struct"
    /\ AfterRead("ReadStruct",
                 ReadStruct(pending[1].t, stream, Dest(pending[1].t, dirty)),
                 Dest(pending[1].t, dirty))

\* The reader handed to a Read function holds bytes of any origin: bs is put
\* into the new or truncated buffer.
Feed(bs) ==
    /\ pending = <<>>
    /\ stream = <<>>
    /\ last.op = "none"
    /\ stream' = bs
    /\ pending' = pending
    /\ last' = [NoOp EXCEPT !.op = "Feed", !.in = bs, !.sync = FALSE]

\* what a read of whatever the buffer holds, that returned r, leaves behind
AfterReadFed(entry, t, r, d0, dst) ==
    /\ stream' = r.s
    /\ pending' = pending
    /\ last' = [op |-> entry, t |-> t, src |-> V0, out |-> <<>>, err |-> r.err,
                d0 |-> d0, d |-> r.v, used |-> Len(stream) - Len(r.s),
                sync |-> FALSE, in |-> stream, dst |-> dst]

\* err := entry(buf, val) as the first read from a buffer that was fed: val
\* is &d with d of type t, or something that is not addressable
DoReadFed(entry, t, dirty, dst) ==
    /\ last.op = "Feed"
    /\ EntryFits(entry, t)
    /\ dst # "pointer" => ~dirty /\ t \in ValTypes
    /\ AfterReadFed(entry, t, ReadEntry(entry, t, stream, Dest(t, dirty), dst),
                    Dest(t, dirty), dst)

\* buf.Truncate(0)
Reset ==
    /\ last.op # "none"
    /\ stream' = <<>>
    /\ pending' = <<>>
    /\ last' = NoOp

Next ==
    \/ \E t \in Universe : \E v \in Values(t) : \E ord \in KeyOrders : DoWrite(t, v, ord)
    \/ \E dirty \in BOOLEAN : DoRead(dirty)
    \/ \E dirty \in BOOLEAN : DoReadStruct(dirty)
    \/ \E bs \in Feeds : Feed(bs)
    \/ \E entry \in Entries : \E t \in Universe : \E dirty \in BOOLEAN :
          \E dst \in Dsts : DoReadFed(entry, t, dirty, dst)
    \/ Reset

Spec == Init /\ [][Next]_vars

----------------------------------------------------------------------------
(* Properties                                                              *)

\* a nil pointer is met on the way down the pointer chain of v
RECURSIVE ChainNil(_, _)
ChainNil(t, v) == t.kind = "ptr" /\ (v.nil \/ ChainNil(t.sub[1], v.sub[1]))

\* the type and the value at the end of a pointer chain without nil
RECURSIVE ConcreteType(_)
ConcreteType(t) == IF t.kind = "ptr" THEN ConcreteType(t.sub[1]) ELSE t
RECURSIVE ConcreteValue(_, _)
ConcreteValue(t, v) == IF t.kind = "ptr" THEN ConcreteValue(t.sub[1], v.sub[1]) ELSE v

\* the last operation wrote r
WroteAs(r) == last.out = r.out /\ last.err = r.err

\* C4: Write of a pointer chain of any depth writes the single byte 0x00
\* when a nil pointer is met at any level, and otherwise the bytes that
\* Write of the concrete value at the end of the chain writes.
C4_PointerEncodeRule ==
    (last.op = "Write" /\ last.t.kind = "ptr") =>
        IF ChainNil(last.t, last.src)
        THEN last.out = <<0>> /\ last.err = "nil"
        ELSE \E ord \in KeyOrders :
                WroteAs(Write(ConcreteType(last.t),
                              ConcreteValue(last.t, last.src), ord))

\* a ***bool whose second level is nil has been written
C4_Witness ==
    /\ last.op = "Write"
    /\ last.t = PtrTo(PtrTo(PtrTo(TBool)))
    /\ last.src = Ptr(NilV)
    /\ last.out = <<0>>

\* the last operation wrote a value that is, at the end of its pointer
\* chain, of a type with MarshalBinary in its method set
WroteMarshaler ==
    /\ last.op = "Write"
    /\ ~ChainNil(last.t, last.src)
    /\ ConcreteType(last.t).marsh = "value"

\* what MarshalBinary returned for the value last written
LastMarshal == MarshalBinary(ConcreteType(last.t), ConcreteValue(last.t, last.src))

\* v holds no nil pointer, slice or map, its unexported fields are zero, and
\* MarshalBinary fails on none of its parts: a value whose whole content a
\* Write is meant to put on the stream.
RECURSIVE Plain(_, _)
Plain(t, v) ==
    CASE t.marsh # "none" -> MarshalBinary(t, v).err = "nil"
      [] t.kind = "ptr" -> ~v.nil /\ Plain(t.sub[1], v.sub[1])
      [] t.kind \in {"array", "slice"} ->
            ~v.nil /\ \A i \in 1..Len(v.sub) : Plain(t.sub[1], v.sub[i])
      [] t.kind = "map" ->
            ~v.nil /\ \A i \in 1..Len(v.sub) : Plain(t.sub[2], v.sub[i].sub[2])
      [] t.kind = "struct" ->
            \A i \in 1..Len(t.sub) :
                IF GoExported(t.names[i]) THEN Plain(t.sub[i], v.sub[i])
                ELSE v.sub[i] = Zero(t.sub[i])
      [] OTHER -> TRUE

\* C1: round trip.  For every supported kind and every value v of it (taken
\* here without nil pointers, slices and maps and without content in
\* unexported fields, which no Write puts on the stream), Write(stream, v)
\* followed by Read(stream, &d) with d a zero value of the same type returns
\* no error and leaves d deep-equal to v.
C1_RoundTrip ==
    (/\ last.op = "Read"
     /\ last.sync
     /\ last.d0 = Zero(last.t)
     /\ Plain(last.t, last.src))
    => (last.err = "nil" /\ last.d = last.src)

\* C2: stream framing.  After any sequence of successful writes of values
\* v1..vn to one stream, n reads in the same order into destinations of the
\* matching types yield v1..vn in order, each read consumes exactly the
\* bytes its write produced, and the stream is empty after the last read.
C2_StreamFraming ==
    (/\ last.op = "Read"
     /\ last.sync
     /\ last.d0 = Zero(last.t)
     /\ Plain(last.t, last.src))
    => /\ last.err = "nil"
       /\ last.d = last.src
       /\ last.used = Len(last.out)
       /\ pending = <<>> => stream = <<>>

\* C3: absent-pointer decode.  For every pointee type T (without
\* capabilities), reading the stream produced by writing a nil pointer to T
\* into a *T destination succeeds, consumes exactly the one sentinel byte,
\* and leaves the destination a non-nil pointer to the zero value of T.
C3_AbsentPointerDecode ==
    (/\ last.op = "Read"
     /\ last.sync
     /\ last.t.kind = "ptr"
     /\ last.src.nil
     /\ last.t.sub[1].kind # "ptr"
     /\ last.t.sub[1].marsh = "none")
    => /\ last.err = "nil"
       /\ last.used = 1
       /\ last.d = Ptr(Zero(last.t.sub[1]))

\* the unexported and placeholder fields hold in b what they hold in a, at
\* top level and in nested aggregates
RECURSIVE SkippedSame(_, _, _)
SkippedSame(t, a, b) ==
    t.kind = "struct" =>
        \A i \in 1..Len(t.sub) :
            IF GoExported(t.names[i]) THEN SkippedSame(t.sub[i], a.sub[i], b.sub[i])
            ELSE a.sub[i] = b.sub[i]

\* the unexported and placeholder fields of v hold the zero value, wherever
\* they are in v
RECURSIVE SkippedZero(_, _)
SkippedZero(t, v) ==
    CASE t.kind = "struct" ->
            \A i \in 1..Len(t.sub) :
                IF GoExported(t.names[i]) THEN SkippedZero(t.sub[i], v.sub[i])
                ELSE v.sub[i] = Zero(t.sub[i])
      [] t.kind = "ptr" -> v.nil \/ SkippedZero(t.sub[1], v.sub[1])
      [] t.kind \in {"array", "slice"} ->
            \A i \in 1..Len(v.sub) : SkippedZero(t.sub[1], v.sub[i])
      [] t.kind = "map" ->
            \A i \in 1..Len(v.sub) : SkippedZero(t.sub[2], v.sub[i].sub[2])
      [] OTHER -> TRUE

\* C5 as stated: after Read or ReadStruct into a destination whose
\* unexported fields hold arbitrary values, every unexported or placeholder
\* field, at top level and in nested aggregates, still holds its value from
\* before the call.
C5_SkippedFieldsKept ==
    last.op \in {"Read", "ReadStruct"} => SkippedSame(last.t, last.d0, last.d)

\* C5 amended: no unexported or placeholder field is ever assigned from the
\* stream.  ReadStruct leaves the destination's own unexported and
\* placeholder fields as they were, and each of its exported fields either
\* as it was or replaced by a newly allocated value whose unexported fields
\* are zero.  Read leaves the destination either as it was or replaced by a
\* newly allocated value whose unexported fields are zero everywhere.
C5_SkippedFieldsNeverRead ==
    /\ (last.op = "ReadStruct") =>
          \A i \in 1..Len(last.t.sub) :
              IF GoExported(last.t.names[i])
              THEN \/ last.d.sub[i] = last.d0.sub[i]
                   \/ SkippedZero(last.t.sub[i], last.d.sub[i])
              ELSE last.d.sub[i] = last.d0.sub[i]
    /\ (last.op = "Read") =>
          \/ last.d = last.d0
          \/ SkippedZero(last.t, last.d)

\* a Read into an Outer whose unexported fields held something has
\* succeeded: N is read from the stream, _ and In.b are zero
C5_Witness ==
    /\ last.op = "Read"
    /\ last.t = TOuter
    /\ last.d0 = Dirty(TOuter)
    /\ last.err = "nil"
    /\ last.d.sub[2] = Num(0)
    /\ last.d.sub[3].sub[1] = Num(0)
    /\ last.d.sub[1] = Num(200)

\* the bytes of the exported fields of v that are not named "_", in
\* declaration order, from field i on
RECURSIVE ExportedFields(_, _, _, _)
ExportedFields(t, v, i, ord) ==
    IF i > Len(t.sub) THEN Wrote(<<>>)
    ELSE IF GoExported(t.names[i]) /\ t.names[i] # NameBlank
    THEN Then(Write(t.sub[i], v.sub[i], ord), ExportedFields(t, v, i + 1, ord))
    ELSE ExportedFields(t, v, i + 1, ord)

\* C6: export filtering symmetry.  The bytes Write produces for an aggregate
\* are exactly the concatenation, in declaration order, of the encodings of
\* its exported fields whose name is not '_'; Read of that aggregate type
\* consumes exactly those; the fields WriteStructReflect skips are the
\* fields ReadStructReflect skips.
C6_ExportFiltering ==
    /\ (last.op = "Write" /\ last.t.kind = "struct" /\ last.t.marsh = "none")
          => \E ord \in KeyOrders : WroteAs(ExportedFields(last.t, last.src, 1, ord))
    /\ (/\ last.op = "Read" /\ last.t.kind = "struct" /\ last.t.marsh = "none"
        /\ last.sync /\ Plain(last.t, last.src))
          => \E ord \in KeyOrders :
                last.used = Len(ExportedFields(last.t, last.src, 1, ord).out)
    /\ (last.t.kind = "struct")
          => \A i \in 1..Len(last.t.sub) :
                WriteSkips(last.t.names[i]) = ReadSkips(last.t.names[i])

\* the blob m.blob as WriteSliceReflect writes a []byte, when MarshalBinary
\* returned it without error
OnlyBlob(t, v, m) ==
    IF m.err # "nil" THEN last.out = <<>>
    ELSE /\ last.out = WriteSliceReflect(TBytes, BytesValue(m.blob), <<>>).out
         /\ WriteStructReflect(t, v, <<>>).out # <<>>
               => last.out # WriteStructReflect(t, v, <<>>).out

\* C7: capability precedence on encode.  When the dereferenced concrete
\* value implements BinaryMarshaler, Write emits only the length-prefixed
\* blob the capability returned (nothing when it returned none) and never
\* the structural encoding of the value's fields.
C7_CapabilityPrecedence ==
    WroteMarshaler =>
        OnlyBlob(ConcreteType(last.t), ConcreteValue(last.t, last.src), LastMarshal)

\* a *Tag pointing to Tag{X: 200} has been written as its blob {7, 200}
C7_Witness ==
    /\ last.op = "Write"
    /\ last.t = PtrTo(TTag)
    /\ last.src = Ptr(Agg(<<Num(200)>>))
    /\ last.out = <<4, 7, 200, 1>>

\* C8: capability round trip.  For a type that implements both capabilities,
\* Write followed by Read into a destination of that type consumes exactly
\* the bytes Write produced and leaves the destination holding the value
\* UnmarshalBinary reconstructs from the blob, equal to the source.
C8_CapabilityRoundTrip ==
    (/\ last.op = "Read"
     /\ last.sync
     /\ last.t.marsh # "none" /\ last.t.unmarsh # "none"
     /\ MarshalBinary(last.t, last.src).err = "nil")
    => /\ last.err = "nil"
       /\ last.used = Len(last.out)
       /\ last.d = UnmarshalBinary(last.t, MarshalBinary(last.t, last.src).blob).v
       /\ last.d = last.src

\* each byte of bs as an unsigned varint
RECURSIVE UvarintEach(_)
UvarintEach(bs) ==
    IF bs = <<>> THEN <<>> ELSE PutUvarint(Head(bs)) \o UvarintEach(Tail(bs))

\* C9 as stated: for a blob of n bytes, Write emits the varint of n followed
\* by the n blob bytes verbatim, so exactly n bytes follow the prefix.
C9_BlobRaw ==
    (WroteMarshaler /\ LastMarshal.err = "nil") =>
        /\ last.out = PutVarint(Len(LastMarshal.blob)) \o LastMarshal.blob
        /\ Len(last.out) - Len(PutVarint(Len(LastMarshal.blob))) = Len(LastMarshal.blob)

\* C9 amended: for a blob of n bytes, Write emits the zig-zag varint of n
\* (the byte 2n for n < 64) followed by each blob byte as an unsigned
\* varint: one byte for 0..127, two bytes for 128..255.  The bytes after the
\* prefix number n plus the number of blob bytes above 127.
C9_BlobWire ==
    (WroteMarshaler /\ LastMarshal.err = "nil") =>
        /\ last.out = <<2 * Len(LastMarshal.blob)>> \o UvarintEach(LastMarshal.blob)
        /\ Len(last.out) - 1 =
              Len(LastMarshal.blob)
              + Cardinality({i \in 1..Len(LastMarshal.blob) : LastMarshal.blob[i] > 127})

\* a Tag{X: 200} has been written: the blob byte 200 takes two bytes
C9_Witness ==
    /\ last.op = "Write"
    /\ last.t = TTag
    /\ last.src = Agg(<<Num(200)>>)
    /\ last.out = <<4, 7, 200, 1>>

\* C10: capability error propagation.  If MarshalBinary of a value returns
\* an error, Write returns that error to the caller.
C10_MarshalErrorReturned ==
    (WroteMarshaler /\ LastMarshal.err # "nil") => last.err = LastMarshal.err

----------------------------------------------------------------------------
(* Wire formats and malformed streams                                      *)

\* the last operation was a read through a pointer to a value of kind k
ReadOf(ops, kinds) ==
    last.op \in ops /\ last.dst = "pointer" /\ last.t.kind \in kinds

\* the last operation read back, into a zero value, what a Write had put
\* last into a buffer holding nothing else
ReadBack == last.op = "Read" /\ last.sync /\ last.d0 = Zero(last.t)

\* C11 as stated: a text of n bytes encodes as the varint of n followed by
\* its n raw bytes; "ab" encodes to 0x02 0x61 0x62.
C11_TextPlainCount ==
    (last.op = "Write" /\ last.t = TString) =>
        /\ last.out = <<Len(last.src.raw)>> \o last.src.raw
        /\ last.src.raw = <<97, 98>> => last.out = <<2, 97, 98>>

\* C11 amended: a text of n bytes encodes as the zig-zag varint of n (the
\* byte 2n for n < 64) followed by its n raw bytes with no terminator; "ab"
\* encodes to 0x04 0x61 0x62 and decodes back to "ab" from the buffer it was
\* written to.
C11_TextWire ==
    /\ (last.op = "Write" /\ last.t = TString) =>
          /\ last.err = "nil"
          /\ last.out = <<2 * Len(last.src.raw)>> \o last.src.raw
          /\ last.src.raw = <<97, 98>> => last.out = <<4, 97, 98>>
    /\ (ReadBack /\ last.t = TString) =>
          /\ last.err = "nil"
          /\ last.d = last.src
          /\ last.used = Len(last.out)

\* "ab" has been written as 04 61 62 and read back
C11_Witness ==
    /\ ReadBack
    /\ last.t = TString
    /\ last.src = Raw(<<97, 98>>)
    /\ last.out = <<4, 97, 98>>
    /\ last.d = Raw(<<97, 98>>)

\* the 7-bit-continuation bytes of u, low group first, for u < 2^14
VarintBytes(u) == IF u < 128 THEN <<u>> ELSE <<128 + (u % 128), u \div 128>>
\* the zig-zag image of the signed n
ZigZag(n) == IF n < 0 THEN (-2 * n) - 1 ELSE 2 * n

\* C12: the integer wire format does not depend on the declared width.  A
\* signed integer encodes as the varint of its zig-zag image, an unsigned
\* one as the plain varint; int32 -1 encodes to 0x01 and unsigned 300 to
\* 0xAC 0x02; each is read back as the original value.
C12_IntegerWire ==
    /\ (last.op = "Write" /\ last.t.kind = "int") =>
          /\ last.err = "nil"
          /\ last.out = VarintBytes(ZigZag(last.src.n))
          /\ (last.t = TInt32 /\ last.src.n = -1) => last.out = <<1>>
    /\ (last.op = "Write" /\ last.t.kind = "uint") =>
          /\ last.err = "nil"
          /\ last.out = VarintBytes(last.src.n)
          /\ last.src.n = 300 => last.out = <<172, 2>>
    /\ (ReadBack /\ last.t.kind \in {"int", "uint"}) =>
          /\ last.err = "nil"
          /\ last.d = last.src
          /\ last.used = Len(last.out)

\* the uint16 300 has been written as AC 02 and read back
C12_Witness ==
    /\ ReadBack
    /\ last.t = TUint16
    /\ last.src = Num(300)
    /\ last.out = <<172, 2>>
    /\ last.d = Num(300)

\* C13: strict boolean decode.  Reading a boolean consumes exactly one byte;
\* 0x00 sets the destination to false, 0x01 to true, and every other byte
\* returns ErrUnexpected and leaves the destination as it was.
C13_StrictBool ==
    (ReadOf({"Read", "ReadBool"}, {"bool"}) /\ last.in # <<>>) =>
        /\ last.used = 1
        /\ stream = Tail(last.in)
        /\ CASE last.in[1] = 0 -> last.err = "nil" /\ last.d = Num(0)
             [] last.in[1] = 1 -> last.err = "nil" /\ last.d = Num(1)
             [] OTHER -> last.err = "ErrUnexpected" /\ last.d = last.d0

\* ReadBool of the byte 0x02 into a boolean that held true has failed
C13_Witness ==
    /\ last.op = "ReadBool"
    /\ last.dst = "pointer"
    /\ last.in = <<2, 1>>
    /\ last.d0 = Num(1)
    /\ last.err = "ErrUnexpected"
    /\ last.d = Num(1)

\* bs starts with a whole varint: some byte below 0x80 ends it
HasPrefix(bs) == \E i \in 1..Len(bs) : bs[i] < 128
\* the number of bytes of that varint
PrefixLen(bs) == CHOOSE i \in 1..Len(bs) : bs[i] < 128 /\ \A j \in 1..(i - 1) : bs[j] >= 128
\* the zig-zag varint at the start of bs is negative: its lowest bit is set
NegativePrefix(bs) == HasPrefix(bs) /\ bs[1] % 2 = 1

\* C14: negative count rejection.  When the count prefix of a text, a
\* slice or a map decodes to a negative number, the decode returns
\* ErrUnexpected, reads no byte beyond the prefix and leaves the
\* destination as it was.
C14_NegativeCount ==
    (/\ ReadOf({"Read", "ReadString", "ReadSlice", "ReadMap"},
               {"string", "slice", "map"})
     /\ NegativePrefix(last.in))
    => /\ last.err = "ErrUnexpected"
       /\ last.used = PrefixLen(last.in)
       /\ last.d = last.d0

\* ReadSlice of the count -1, two bytes long, into a slice that held an
\* element
C14_Witness ==
    /\ last.op = "ReadSlice"
    /\ last.dst = "pointer"
    /\ last.in = <<129, 0, 1>>
    /\ last.d0 = Dirty(TBytes)
    /\ last.err = "ErrUnexpected"
    /\ last.used = 2
    /\ last.d = Dirty(TBytes)

\* C15 as stated: when the stream ends while the continuation bit of an
\* integer's varint is still set, or is empty, the decode fails with
\* ErrUnexpected.
C15_MalformedIsUnexpected ==
    (ReadOf({"Read", "ReadNumber"}, {"int", "uint"}) /\ ~HasPrefix(last.in))
    => last.err = "ErrUnexpected"

\* C15 amended: when the stream ends while the continuation bit of an
\* integer's varint is still set, or is empty, the decode fails with the
\* end-of-data error of the stream (io.EOF on an empty stream, io.EOF or
\* io.ErrUnexpectedEOF inside a varint), not with ErrUnexpected, and it
\* never succeeds with a truncated value: the destination stays as it was.
C15_MalformedIsEndOfData ==
    (ReadOf({"Read", "ReadNumber"}, {"int", "uint"}) /\ ~HasPrefix(last.in))
    => /\ last.err \in {"EOF", "ErrUnexpectedEOF"}
       /\ last.in = <<>> => last.err = "EOF"
       /\ last.d = last.d0
       /\ stream = <<>>

\* ReadNumber of two bytes that both ask for more
C15_Witness ==
    /\ last.op = "ReadNumber"
    /\ last.dst = "pointer"
    /\ last.t = TInt16
    /\ last.in = <<129, 129>>
    /\ last.d0 = Num(1)
    /\ last.err = "ErrUnexpectedEOF"
    /\ last.d = Num(1)

\* C16: truncated text.  When a text's count prefix is n > 0 and the stream
\* supplies fewer than n further bytes, the decode returns an error and
\* stores no text in the destination.
C16_TruncatedTextFails ==
    (/\ ReadOf({"Read", "ReadString"}, {"string"})
     /\ last.in # <<>>
     /\ last.in[1] < 128 /\ last.in[1] % 2 = 0 /\ last.in[1] > 0
     /\ Len(last.in) - 1 < last.in[1] \div 2)
    => /\ last.err # "nil"
       /\ last.d = last.d0

RECURSIVE MeetsUnsupported(_, _)
MeetsUnsupported(t, v) ==
    CASE t.kind \in {"func", "chan", "unsafeptr"} -> TRUE
      [] t.kind = "ptr" -> ~v.nil /\ MeetsUnsupported(t.sub[1], v.sub[1])
      [] t.kind = "array" -> t.w > 0 /\ MeetsUnsupported(t.sub[1], v.sub[1])
      [] t.kind = "struct" /\ t.marsh = "none" ->
            \E i \in 1..Len(t.sub) :
                /\ GoExported(t.names[i])
                /\ MeetsUnsupported(t.sub[i], v.sub[i])
      [] OTHER -> FALSE

\* a type whose Read comes to a function, a channel or an unsafe pointer
\* before it takes a byte from the stream
RECURSIVE StartsUnsupported(_)
StartsUnsupported(t) ==
    CASE t.kind \in {"func", "chan", "unsafeptr"} -> TRUE
      [] t.kind = "ptr" -> StartsUnsupported(t.sub[1])
      [] t.kind = "array" -> t.w > 0 /\ StartsUnsupported(t.sub[1])
      [] OTHER -> FALSE

\* C18: unsupported kinds.  Write of a value, and Read into a destination,
\* whose kind is function, channel or unsafe pointer, at top level or as an
\* element or exported field that the recursion reaches, returns
\* ErrUnsupportedValue.
C18_UnsupportedKinds ==
    /\ (last.op = "Write" /\ MeetsUnsupported(last.t, last.src))
          => last.err = "ErrUnsupportedValue"
    /\ (last.op = "Read" /\ last.dst = "pointer" /\ StartsUnsupported(last.t))
          => /\ last.err = "ErrUnsupportedValue"
             /\ last.used = 0
             /\ last.d = last.d0
    /\ (/\ last.op \in {"Read", "ReadStruct"} /\ last.dst = "pointer"
        /\ last.t = TCallback
        /\ last.in # <<>> /\ last.in[1] \in {0, 1})
          => /\ last.err = "ErrUnsupportedValue"
             /\ last.used = 1

\* a Callback{A: true, F: f} has been written: the byte of A, then the error
C18_Witness ==
    /\ last.op = "Write"
    /\ last.t = TCallback
    /\ last.src = Agg(<<Num(1), V0>>)
    /\ last.out = <<1>>
    /\ last.err = "ErrUnsupportedValue"

\* every pointer on the way down the pointer chain of v is non-nil
RECURSIVE ChainWhole(_, _)
ChainWhole(t, v) ==
    t.kind = "ptr" => (~v.nil /\ ChainWhole(t.sub[1], v.sub[1]))

\* C19: multi-level pointer decode.  After a successful Read into a
\* destination of pointer type of any depth every pointer in the chain is
\* non-nil and the innermost value is the decoded concrete value; a struct
\* with such a field round-trips deep-equal.
C19_PointerDecode ==
    /\ (last.op = "Read" /\ last.dst = "pointer" /\ last.t.kind = "ptr"
        /\ last.err = "nil")
          => ChainWhole(last.t, last.d)
    /\ (ReadBack /\ last.t.kind = "ptr" /\ last.err = "nil"
        /\ ~ChainNil(last.t, last.src))
          => last.d = last.src
    /\ (ReadBack /\ last.t = TDeepPointerTypes
        /\ ~ChainNil(last.t.sub[1], last.src.sub[1]))
          => last.err = "nil" /\ last.d = last.src

\* C20: empty boundary.  An empty text and an empty slice each encode to
\* the one byte 0x00, and decoding that byte yields an empty text and an
\* empty, non-nil slice with no error.
C20_EmptyBoundary ==
    /\ (last.op = "Write" /\ last.t = TString /\ last.src = Raw(<<>>))
          => last.out = <<0>> /\ last.err = "nil"
    /\ (last.op = "Write" /\ last.t.kind = "slice" /\ last.src = Agg(<<>>))
          => last.out = <<0>> /\ last.err = "nil"
    /\ (ReadOf({"Read", "ReadString"}, {"string"})
        /\ last.in # <<>> /\ last.in[1] = 0)
          => last.err = "nil" /\ last.used = 1 /\ last.d = Raw(<<>>)
    /\ (ReadOf({"Read", "ReadSlice"}, {"slice"})
        /\ last.in # <<>> /\ last.in[1] = 0)
          => last.err = "nil" /\ last.used = 1 /\ last.d = Agg(<<>>)
             /\ ~last.d.nil

\* the empty, non-nil []byte has been written as 00 and read back into a
\* slice that held an element
C20_Witness ==
    /\ last.op = "Read"
    /\ last.sync
    /\ last.t = TBytes
    /\ last.src = Agg(<<>>)
    /\ last.out = <<0>>
    /\ last.d0 = Dirty(TBytes)
    /\ last.err = "nil"
    /\ last.d = Agg(<<>>)

----------------------------------------------------------------------------
(* Errors during a traversal, containers and integer widths                *)

\* C21: fail-fast traversal.  In Write and in Read the first error of a
\* sub-operation (transport error, ErrUnsupportedValue, ErrUnexpected, the
\* error of MarshalBinary or UnmarshalBinary) is the error returned, and
\* after it no further byte is written or read and no later field or element
\* is processed.
C21_FailFast ==
    /\ (last.op = "Write" /\ last.t = TLogged /\ last.src.sub[1].sub[2].n = 1)
          => /\ last.err = "MarshalBinary: fractional"
             /\ last.out = <<>>
    /\ (last.op = "Write" /\ last.t = TCallback)
          => /\ last.err = "ErrUnsupportedValue"
             /\ last.out = <<last.src.sub[1].n>>
    /\ (ReadOf({"Read", "ReadArray"}, {"array"}) /\ last.t = TArr2Bool
        /\ last.in # <<>> /\ last.in[1] \notin {0, 1})
          => /\ last.err = "ErrUnexpected"
             /\ last.used = 1
             /\ stream = Tail(last.in)
    /\ (ReadOf({"Read", "ReadStruct"}, {"struct"}) /\ last.t = TOuter
        /\ Len(last.in) = 1 /\ last.in[1] < 128)
          => /\ last.err = "EOF"
             /\ last.used = 1
    /\ (ReadOf({"Read", "ReadStruct"}, {"struct"}) /\ last.t = TCallback
        /\ last.in # <<>> /\ last.in[1] \in {0, 1})
          => /\ last.err = "ErrUnsupportedValue"
             /\ last.used = 1
             /\ stream = Tail(last.in)
    /\ (ReadOf({"Read"}, {"struct"}) /\ last.t = TTag
        /\ Len(last.in) = 3 /\ last.in[1] = 4 /\ last.in[2] # 7
        /\ last.in[2] < 128 /\ last.in[3] < 128)
          => /\ last.err = "UnmarshalBinary: invalid"
             /\ last.used = 3

\* a read into a struct of two retained fields has decoded the first field
\* from the first byte of the stream and failed in the second
FailsAtSecond ==
    /\ last.dst = "pointer"
    /\ last.t \in {TCallback, TNilTypes, TOuter}
    /\ last.in # <<>>
    /\ last.err # "nil"
    /\ IF last.t = TOuter THEN last.in[1] < 128 ELSE last.in[1] \in {0, 1}
\* the value that the first byte of the stream decodes to in the first field
FirstDecoded ==
    IF last.t = TNilTypes THEN Ptr(Num(last.in[1])) ELSE Num(last.in[1])

\* C22 as claimed: when Read into a struct fails while decoding retained
\* field k > 0, the retained fields of the destination before k hold the
\* values decoded from the stream.
C22_ReadPartial ==
    (last.op = "Read" /\ FailsAtSecond) => last.d.sub[1] = FirstDecoded

\* C22: partial mutation on failed decode.  When ReadStruct fails while
\* decoding retained field k > 0, the retained fields before k hold the
\* values decoded from the stream and the fields from k on are as they were;
\* a Read that fails leaves its destination as it was before the call.
C22_ReadStructPartial ==
    /\ (last.op = "ReadStruct" /\ FailsAtSecond) =>
          /\ last.d.sub[1] = FirstDecoded
          /\ \A i \in 2..Len(last.t.sub) : last.d.sub[i] = last.d0.sub[i]
    /\ (last.op = "Read" /\ last.dst = "pointer" /\ last.err # "nil") =>
          last.d = last.d0

\* ReadStruct of the one byte 00 into a NilTypes whose P pointed to true: P
\* points to false now, S is the pointer it was
C22_Witness ==
    /\ last.op = "ReadStruct"
    /\ last.t = TNilTypes
    /\ last.in = <<0>>
    /\ last.d0 = Dirty(TNilTypes)
    /\ last.err = "EOF"
    /\ last.d = Agg(<<Ptr(Num(0)), Ptr(Raw(<<98>>))>>)

\* every byte of the stream that was read from stands for itself as a varint
PlainBytes == \A i \in 1..Len(last.in) : last.in[i] < 128

\* C23: container decode replaces the destination.  A successful decode of a
\* slice leaves the destination with exactly count elements, the ones read
\* from the stream, and none of its previous elements; a successful decode
\* of a map leaves the destination with only the pairs read from the stream
\* and none of its previous entries.
C23_ContainerReplaced ==
    /\ (last.op = "Read" /\ last.sync /\ last.err = "nil"
        /\ last.t.kind \in {"slice", "map"}) =>
          last.d = (IF last.src.nil THEN Agg(<<>>) ELSE last.src)
    /\ (ReadOf({"Read", "ReadSlice"}, {"slice"}) /\ last.t = TBytes
        /\ last.err = "nil" /\ PlainBytes) =>
          /\ Len(last.d.sub) = last.in[1] \div 2
          /\ last.d = BytesValue(SubSeq(last.in, 2, 1 + (last.in[1] \div 2)))
    /\ (ReadOf({"Read", "ReadMap"}, {"map"}) /\ last.t = TMapU8Bool
        /\ last.err = "nil" /\ PlainBytes) =>
          CASE last.in[1] = 0 -> last.d = Agg(<<>>)
            [] last.in[1] = 2 ->
                 last.d = Agg(<<Entry(Num(last.in[2]), Num(last.in[3]))>>)
            [] OTHER -> Len(last.d.sub) <= last.in[1] \div 2

\* ReadMap of the pair 4: true into a map that held the key 1: the map holds
\* the key 4 alone
C23_Witness ==
    /\ last.op = "ReadMap"
    /\ last.dst = "pointer"
    /\ last.t = TMapU8Bool
    /\ last.d0 = Dirty(TMapU8Bool)
    /\ last.in = <<2, 4, 1>>
    /\ last.err = "nil"
    /\ last.d = Agg(<<Entry(Num(4), Num(1))>>)

\* C24: nil containers are not round-tripped.  Write of a nil slice or a nil
\* map produces the one byte 0x00, the same as an empty one, and Read of that
\* byte yields a non-nil empty slice or map: a source that holds a nil slice
\* or map decodes to a value that differs from it in being nil.
C24_NilContainers ==
    /\ (last.op = "Write" /\ last.t.kind \in {"slice", "map"}
        /\ (last.src.nil \/ last.src = Agg(<<>>))) =>
          last.out = <<0>> /\ last.err = "nil"
    /\ (ReadBack /\ last.t.kind \in {"slice", "map"} /\ last.src.nil) =>
          /\ last.err = "nil"
          /\ last.d = Agg(<<>>)
          /\ ~last.d.nil
          /\ last.d # last.src
    /\ (ReadOf({"Read", "ReadSlice", "ReadMap"}, {"slice", "map"})
        /\ last.in # <<>> /\ last.in[1] = 0) =>
          last.err = "nil" /\ last.d = Agg(<<>>) /\ ~last.d.nil

\* the nil map[uint8]bool has been written as 00 and read back as an empty
\* map that is not nil
C24_Witness ==
    /\ ReadBack
    /\ last.t = TMapU8Bool
    /\ last.src = NilV
    /\ last.out = <<0>>
    /\ last.err = "nil"
    /\ last.d = Agg(<<>>)

\* the unsigned number that the varint at the start of bs stands for
RECURSIVE WireValue(_)
WireValue(bs) ==
    IF bs[1] < 128 THEN bs[1] ELSE (bs[1] - 128) + 128 * WireValue(Tail(bs))
\* the signed number that the zig-zag varint at the start of bs stands for
WireSigned(bs) ==
    IF WireValue(bs) % 2 = 1 THEN (-(WireValue(bs) \div 2)) - 1
    ELSE WireValue(bs) \div 2
\* 2^w for the widths of 8 and 16 bits
Modulus(t) == IF t.w = 8 THEN 256 ELSE 65536

\* C25: integer narrowing on decode.  When a well-formed varint on the
\* stream holds a value outside the range of the destination's width w, the
\* integer read returns no error and stores the value reduced modulo 2^w:
\* 257 read into a uint8 gives 1, -129 read into an int8 gives 127.
C25_Narrowing ==
    (/\ ReadOf({"Read", "ReadNumber"}, {"int", "uint"})
     /\ last.t.w \in {8, 16}
     /\ HasPrefix(last.in)) =>
        /\ last.err = "nil"
        /\ last.used = PrefixLen(last.in)
        /\ IF last.t.kind = "uint"
           THEN last.d.n = WireValue(last.in) % Modulus(last.t)
           ELSE /\ 2 * last.d.n >= -Modulus(last.t)
                /\ 2 * last.d.n < Modulus(last.t)
                /\ (last.d.n - WireSigned(last.in)) % Modulus(last.t) = 0
        /\ (last.t = TUint8 /\ last.in = <<129, 2>>) => last.d = Num(1)
        /\ (last.t = TInt8 /\ last.in = <<129, 2>>) => last.d = Num(127)

\* the varint 81 02, which is 257, has been read into a uint8 that is 1 now
C25_Witness ==
    /\ last.op = "ReadNumber"
    /\ last.dst = "pointer"
    /\ last.t = TUint8
    /\ last.in = <<129, 2>>
    /\ last.err = "nil"
    /\ last.used = 2
    /\ last.d = Num(1)

====
